---- MODULE Spec2Model ----
(***************************************************************************)
(* A model of the LADSPA host adapter of libs/ardour/ladspa_plugin.cc:     *)
(* the two control-value arrays (_shadow_data, _control_data), the         *)
(* activation flag, the latency port, the state documents and the buffer   *)
(* routing of one processing call.                                         *)
(*                                                                         *)
(* LADSPA_Data values are fixed-point numbers counted in quarters: the     *)
(* integer 6 stands for 1.5.  Port indices are those of the code (from 0). *)
(***************************************************************************)
EXTENDS Integers, Sequences, FiniteSets, TLC

VARIABLES
    desc,                  \* which descriptor of PluginSet the module returns
    plugin_k,              \* the constant the plugin reports on its latency port
    plugin_const,          \* TRUE: the plugin writes plugin_k at every run
    lifecycle,             \* "none", "ok", "failed" (load returned null), "aborted"
    sample_rate,           \* _sample_rate
    shadow_data,           \* _shadow_data
    control_data,          \* _control_data
    was_activated,         \* _was_activated
    latency_control_port,  \* _latency_control_port: {} (null) or {port index}
    doc,                   \* the state document last written by add_state
    doc_shadow,            \* history: the input control values when doc was written
    silent_zero,           \* the session's silent buffer still holds only zeros
    hinted,                \* the port whose default is being resolved
    resolved,              \* history: what _default_value returned for hinted
    visible,               \* _shadow_data as the real-time thread can read it
    held,                  \* history: the values each _shadow_data slot has held
    lastOp,                \* history: the last host call and what it did
    lastRun                \* history: the plugin runs made by the last host call

vars == << desc, plugin_k, plugin_const, lifecycle, sample_rate, shadow_data,
           control_data, was_activated, latency_control_port, doc, doc_shadow,
           silent_zero, hinted, resolved, visible, held, lastOp, lastRun >>

------------------------------------------------------------------------------
(* Bounds of the model *)

\* host parameter values are 0.0, 1.0, ..., MaxVal
MaxVal == 1
\* range hints have the bounds -MaxBound, ..., MaxBound
MaxBound == 2
\* the host's BufferSet holds the audio buffers 0 .. MaxBuf
MaxBuf == 1
\* a state document handed to set_state alone holds up to MaxEntries entries
MaxEntries == 2

HostValues == { 4 * n : n \in 0 .. MaxVal }
Offsets == { 0, 64 }
SampleRates == { 48000 }
\* what a plugin may write to an output control port: 0.5, 1.5
PluginValues == { 2, 6 }
\* the constants a plugin of fixed latency may report: 1.5
LatencyConstants == { 6 }

------------------------------------------------------------------------------
(* LADSPA_Data *)

\* the result of log() of a negative number and of all arithmetic on it
NaN == 0 - 1000000

\* operator== on two floats
FloatEq(a, b) == a # NaN /\ b # NaN /\ a = b

\* operator<= on two floats
FloatLe(a, b) == a # NaN /\ b # NaN /\ a <= b

\* a float multiplied by an integer (ret *= _sample_rate)
FloatScale(a, n) == IF a = NaN THEN NaN ELSE a * n

\* an integer as a float
Whole(n) == 4 * n

\* (samplecnt_t) floor (x)
Floor(x) == x \div 4

------------------------------------------------------------------------------
(* The descriptors a module may return: LADSPA_Descriptor *)

Hint(def, below, above, sr, logar) ==
    [ default |-> def, bounded_below |-> below, bounded_above |-> above,
      sample_rate |-> sr, logarithmic |-> logar ]

NoHint == Hint("none", FALSE, FALSE, FALSE, FALSE)

Port(dir, kind, name, hint, lo, hi) ==
    [ input |-> dir = "in", output |-> dir = "out",
      control |-> kind = "control", audio |-> kind = "audio",
      name |-> name, hint |-> hint,
      LowerBound |-> Whole(lo), UpperBound |-> Whole(hi) ]

Ports(seq) == [ i \in 0 .. Len(seq) - 1 |-> seq[i + 1] ]

Descriptor(broken, inst, seq) ==
    [ inplace_broken |-> broken, has_instantiate |-> inst,
      PortCount |-> Len(seq), ports |-> Ports(seq) ]

AnalyserPorts ==
    << Port("in", "audio", "in", NoHint, 0, 0),
       Port("in", "control", "window", Hint("middle", TRUE, TRUE, FALSE, FALSE), 0, 2),
       Port("out", "control", "latency", NoHint, 0, 0) >>

GainPorts ==
    << Port("in", "control", "gain", Hint("1", TRUE, TRUE, TRUE, FALSE), 0, 2),
       Port("in", "control", "latency", Hint("none", TRUE, FALSE, FALSE, FALSE), 1, 0) >>

RouterPorts ==
    << Port("in", "audio", "inL", NoHint, 0, 0),
       Port("in", "control", "gain", Hint("1", TRUE, TRUE, TRUE, FALSE), 0, 2),
       Port("in", "audio", "inR", NoHint, 0, 0),
       Port("out", "audio", "outL", NoHint, 0, 0),
       Port("out", "audio", "outR", NoHint, 0, 0) >>

PluginSet ==
    << Descriptor(FALSE, TRUE, AnalyserPorts),
       Descriptor(FALSE, TRUE, GainPorts),
       Descriptor(FALSE, TRUE, RouterPorts),
       Descriptor(TRUE, TRUE, AnalyserPorts),
       Descriptor(FALSE, FALSE, GainPorts) >>

\* the plugins hosted for parameter and state handling, and for routing
HostedPlugins == { 1, 2, 4, 5 }
RoutedPlugins == { 1, 3 }

\* _descriptor
descriptor == PluginSet[desc]

parameter_count == descriptor.PortCount

PortIndices == 0 .. parameter_count - 1

\* port_descriptor (i): 0 (no bit set) when i is out of range
port_descriptor(i) ==
    IF i < descriptor.PortCount
    THEN descriptor.ports[i]
    ELSE [ input |-> FALSE, output |-> FALSE, control |-> FALSE, audio |-> FALSE ]

LADSPA_IS_PORT_INPUT(pd) == pd.input
LADSPA_IS_PORT_OUTPUT(pd) == pd.output
LADSPA_IS_PORT_CONTROL(pd) == pd.control
LADSPA_IS_PORT_AUDIO(pd) == pd.audio

InputControlPorts ==
    { i \in PortIndices : LADSPA_IS_PORT_INPUT(port_descriptor(i))
                          /\ LADSPA_IS_PORT_CONTROL(port_descriptor(i)) }

OutputControlPorts ==
    { i \in PortIndices : LADSPA_IS_PORT_OUTPUT(port_descriptor(i))
                          /\ LADSPA_IS_PORT_CONTROL(port_descriptor(i)) }

------------------------------------------------------------------------------
(* LadspaPlugin::_default_value *)

\* exp (log (lo) * wlo/4 + log (hi) * whi/4), to the quarter below; NaN when
\* a bound is negative
LogInterp(lo, hi, wlo, whi) ==
    IF lo < 0 \/ hi < 0
    THEN NaN
    ELSE LET p == (lo ^ wlo) * (hi ^ whi)
             top == IF lo > hi THEN lo ELSE hi
         IN  CHOOSE r \in 0 .. top : r ^ 4 <= p /\ (r + 1) ^ 4 > p

\* the interpolation with the two weights exchanged
Interpolate_swapped(h, lo, hi, wlo, whi) ==
    IF h.logarithmic /\ lo * hi > 0
    THEN LogInterp(lo, hi, whi, wlo)
    ELSE (lo * whi + hi * wlo) \div 4

\* the hints low, middle and high with the weights wlo/4 and whi/4
Interpolate(h, lo, hi, wlo, whi) ==
    IF h.logarithmic /\ lo * hi > 0
    THEN LogInterp(lo, hi, wlo, whi)
    ELSE (lo * wlo + hi * whi) \div 4

\* cases 2 to 4 taking the lower bound whenever the range has no zero inside
bounded_default_lower(h, lo, hi) ==
    IF h.bounded_below /\ ~h.bounded_above
    THEN [ given |-> TRUE, ret |-> IF lo < 0 THEN 0 ELSE lo ]
    ELSE IF ~h.bounded_below /\ h.bounded_above
    THEN [ given |-> TRUE, ret |-> IF hi > 0 THEN 0 ELSE hi ]
    ELSE IF h.bounded_below /\ h.bounded_above
    THEN [ given |-> TRUE, ret |-> IF lo < 0 /\ hi > 0 THEN 0 ELSE lo ]
    ELSE [ given |-> FALSE, ret |-> 0 ]

\* cases 2 to 4 taking the one bound given as it is, whatever its sign
bounded_default_no_clamp(h, lo, hi) ==
    IF h.bounded_below /\ ~h.bounded_above
    THEN [ given |-> TRUE, ret |-> lo ]
    ELSE IF ~h.bounded_below /\ h.bounded_above
    THEN [ given |-> TRUE, ret |-> hi ]
    ELSE IF h.bounded_below /\ h.bounded_above
    THEN [ given |-> TRUE, ret |-> IF lo < 0 /\ hi > 0 THEN 0
                                   ELSE IF lo < 0 /\ hi < 0 THEN hi ELSE lo ]
    ELSE [ given |-> FALSE, ret |-> 0 ]

\* cases 2 to 4: no default hint, the value follows from the bounds; given
\* is FALSE when the port has no bound
bounded_default(h, lo, hi) ==
    IF h.bounded_below /\ ~h.bounded_above
    THEN [ given |-> TRUE, ret |-> IF lo < 0 THEN 0 ELSE lo ]
    ELSE IF ~h.bounded_below /\ h.bounded_above
    THEN [ given |-> TRUE, ret |-> IF hi > 0 THEN 0 ELSE hi ]
    ELSE IF h.bounded_below /\ h.bounded_above
    THEN [ given |-> TRUE, ret |-> IF lo < 0 /\ hi > 0 THEN 0
                                   ELSE IF lo < 0 /\ hi < 0 THEN hi ELSE lo ]
    ELSE [ given |-> FALSE, ret |-> 0 ]

\* cases 1 to 4: ret and the flags bounds_given, sr_scaling, earlier_hint
unscaled_default(prh) ==
    LET h == prh.hint
        lo == prh.LowerBound
        hi == prh.UpperBound
        Bound(v) == [ ret |-> v, bounds_given |-> TRUE, sr_scaling |-> TRUE,
                      earlier_hint |-> FALSE ]
        Literal(v) == [ ret |-> v, bounds_given |-> FALSE, sr_scaling |-> FALSE,
                        earlier_hint |-> TRUE ]
        Nothing == [ ret |-> 0, bounds_given |-> FALSE, sr_scaling |-> FALSE,
                     earlier_hint |-> FALSE ]
    IN  IF h.default # "none"
        THEN CASE h.default = "minimum" -> Bound(lo)
               [] h.default = "low" -> Bound(Interpolate(h, lo, hi, 3, 1))
               [] h.default = "middle" -> Bound(Interpolate(h, lo, hi, 2, 2))
               [] h.default = "high" -> Bound(Interpolate(h, lo, hi, 1, 3))
               [] h.default = "maximum" -> Bound(hi)
               [] h.default = "0" -> Literal(Whole(0))
               [] h.default = "1" -> Literal(Whole(1))
               [] h.default = "100" -> Literal(Whole(100))
               [] h.default = "440" -> Literal(Whole(440))
               [] OTHER -> Nothing
        ELSE IF bounded_default(h, lo, hi).given
        THEN Bound(bounded_default(h, lo, hi).ret)
        ELSE Nothing

\* case 5 applied to the literal defaults too
scaled_default_literals(h, r, rate) ==
    IF h.sample_rate
    THEN IF r.bounds_given
         THEN IF r.sr_scaling THEN FloatScale(r.ret, rate) ELSE r.ret
         ELSE Whole(rate)
    ELSE r.ret

\* case 5 without the assignment of the sample rate when no bound was given
scaled_default_no_rate(h, r, rate) ==
    IF h.sample_rate /\ ~r.earlier_hint
    THEN IF r.bounds_given
         THEN IF r.sr_scaling THEN FloatScale(r.ret, rate) ELSE r.ret
         ELSE r.ret
    ELSE r.ret

\* case 5: the sample-rate hint applied to the result r of cases 1 to 4
scaled_default(h, r, rate) ==
    IF h.sample_rate /\ ~r.earlier_hint
    THEN IF r.bounds_given
         THEN IF r.sr_scaling THEN FloatScale(r.ret, rate) ELSE r.ret
         ELSE Whole(rate)
    ELSE r.ret

default_value(d, rate, port) ==
    scaled_default(d.ports[port].hint, unscaled_default(d.ports[port]), rate)

\* LadspaPlugin::get_parameter_descriptor: desc.lower, desc.upper and
\* desc.normal for the port of range hint prh
get_parameter_descriptor(prh, rate) ==
    LET h == prh.hint
        lower == IF h.bounded_below
                 THEN IF h.sample_rate THEN FloatScale(prh.LowerBound, rate)
                      ELSE prh.LowerBound
                 ELSE 0
        upper == IF h.bounded_above
                 THEN IF h.sample_rate THEN FloatScale(prh.UpperBound, rate)
                      ELSE prh.UpperBound
                 ELSE Whole(1)
    IN  [ lower |-> lower, upper |-> upper,
          normal |-> IF h.default # "none"
                     THEN default_value([ ports |-> << prh >> ], rate, 1)
                     ELSE lower ]

------------------------------------------------------------------------------
(* The adapter object and the plugin behind it *)

\* the fields of a LadspaPlugin that the operations read and write, and the
\* addresses last given to connect_port
Adapter(sh, ct, act, lat, cn) ==
    [ shadow |-> sh, control |-> ct, activated |-> act, latency |-> lat,
      conn |-> cn ]

\* an address handed to connect_port
Address(kind, idx, off) == [ kind |-> kind, idx |-> idx, off |-> off ]

NotConnected == Address("null", 0, 0)

\* outs: the values the plugin's run() writes to its output control ports
PluginOuts ==
    { o \in [ OutputControlPorts -> PluginValues ] :
        \A i \in OutputControlPorts :
            (plugin_const /\ descriptor.ports[i].name = "latency") => o[i] = plugin_k }

\* _descriptor->run (_handle, nframes)
PluginRun(a, outs) ==
    [ a EXCEPT !.control = [ i \in DOMAIN a.control |->
                               IF i \in DOMAIN outs THEN outs[i] ELSE a.control[i] ] ]

activate(a) == [ a EXCEPT !.activated = TRUE ]

deactivate(a) == [ a EXCEPT !.activated = FALSE ]

\* the outcome of a call that may run the plugin: runs holds one entry per
\* invocation of the plugin's run(); aborted: the assertion failed
Outcome(a, runs, aborted) == [ adapter |-> a, runs |-> runs, aborted |-> aborted ]

\* run_in_place without the assertion on the activation flag
run_in_place_no_assert(a, outs) ==
    LET copied == [ a EXCEPT !.control = [ i \in DOMAIN a.control |->
                        IF i \in InputControlPorts THEN a.shadow[i] ELSE a.control[i] ] ]
        atRun == [ activated |-> copied.activated, shadow |-> copied.shadow,
                   control |-> copied.control, entry |-> a.control,
                   copies |-> 1, conn |-> copied.conn ]
    IN  Outcome(PluginRun(copied, outs), << atRun >>, FALSE)

\* run_in_place without the copy of the shadow values
run_in_place_no_copy(a, outs) ==
    LET atRun == [ activated |-> a.activated, shadow |-> a.shadow,
                   control |-> a.control, entry |-> a.control, copies |-> 0,
                   conn |-> a.conn ]
    IN  IF ~a.activated
        THEN Outcome(a, << >>, TRUE)
        ELSE Outcome(PluginRun(a, outs), << atRun >>, FALSE)

\* LadspaPlugin::run_in_place
run_in_place(a, outs) ==
    LET copied == [ a EXCEPT !.control = [ i \in DOMAIN a.control |->
                        IF i \in InputControlPorts THEN a.shadow[i]
                        ELSE a.control[i] ] ]
        atRun == [ activated |-> copied.activated,
                   shadow |-> copied.shadow,
                   control |-> copied.control,
                   entry |-> a.control,
                   copies |-> 1,
                   conn |-> copied.conn ]
    IN  IF ~copied.activated
        THEN Outcome(copied, << >>, TRUE)
        ELSE Outcome(PluginRun(copied, outs), << atRun >>, FALSE)

\* latency_compute_run without the early return
latency_compute_run_always(a, outs) ==
    LET a1 == activate(a)
        a2 == [ a1 EXCEPT !.conn = [ i \in DOMAIN a1.conn |->
                   IF LADSPA_IS_PORT_AUDIO(port_descriptor(i))
                      /\ (LADSPA_IS_PORT_INPUT(port_descriptor(i))
                          \/ LADSPA_IS_PORT_OUTPUT(port_descriptor(i)))
                   THEN Address("probe", 0, 0)
                   ELSE a1.conn[i] ] ]
        r == run_in_place(a2, outs)
    IN  Outcome(deactivate(r.adapter), r.runs, r.aborted)

\* LadspaPlugin::latency_compute_run
latency_compute_run(a, outs) ==
    IF a.latency = {}
    THEN Outcome(a, << >>, FALSE)
    ELSE LET a1 == activate(a)
             a2 == [ a1 EXCEPT !.conn = [ i \in DOMAIN a1.conn |->
                        IF LADSPA_IS_PORT_AUDIO(port_descriptor(i))
                           /\ (LADSPA_IS_PORT_INPUT(port_descriptor(i))
                               \/ LADSPA_IS_PORT_OUTPUT(port_descriptor(i)))
                        THEN Address("probe", 0, 0)
                        ELSE a1.conn[i] ] ]
             r == run_in_place(a2, outs)
         IN  Outcome(deactivate(r.adapter), r.runs, r.aborted)

\* LadspaPlugin::plugin_latency
plugin_latency(a) ==
    IF a.latency # {}
    THEN Floor(a.control[CHOOSE i \in a.latency : TRUE])
    ELSE 0

\* get_parameter reading the shadow slot of every port
get_parameter_shadow(a, which) == a.shadow[which]

\* LadspaPlugin::get_parameter
get_parameter(a, which) ==
    IF LADSPA_IS_PORT_INPUT(port_descriptor(which))
    THEN a.shadow[which]
    ELSE a.control[which]

\* set_parameter storing into the shadow slot and into the live slot
set_parameter_both(a, which, val) ==
    IF which < descriptor.PortCount
    THEN IF FloatEq(get_parameter(a, which), val)
         THEN [ adapter |-> a, wrote |-> FALSE, propagated |-> FALSE, warned |-> FALSE ]
         ELSE [ adapter |-> [ a EXCEPT !.shadow[which] = val, !.control[which] = val ],
                wrote |-> TRUE, propagated |-> TRUE, warned |-> FALSE ]
    ELSE [ adapter |-> a, wrote |-> FALSE, propagated |-> TRUE, warned |-> TRUE ]

\* set_parameter storing into the live slot
set_parameter_live(a, which, val) ==
    IF which < descriptor.PortCount
    THEN IF FloatEq(get_parameter(a, which), val)
         THEN [ adapter |-> a, wrote |-> FALSE, propagated |-> FALSE, warned |-> FALSE ]
         ELSE [ adapter |-> [ a EXCEPT !.control[which] = val ],
                wrote |-> TRUE, propagated |-> TRUE, warned |-> FALSE ]
    ELSE [ adapter |-> a, wrote |-> FALSE, propagated |-> TRUE, warned |-> TRUE ]

\* LadspaPlugin::set_parameter; propagated: Plugin::set_parameter was called
set_parameter(a, which, val) ==
    IF which < descriptor.PortCount
    THEN IF FloatEq(get_parameter(a, which), val)
         THEN [ adapter |-> a, wrote |-> FALSE, propagated |-> FALSE, warned |-> FALSE ]
         ELSE [ adapter |-> [ a EXCEPT !.shadow[which] = val ],
                wrote |-> TRUE, propagated |-> TRUE, warned |-> FALSE ]
    ELSE [ adapter |-> a, wrote |-> FALSE, propagated |-> TRUE, warned |-> TRUE ]

------------------------------------------------------------------------------
(* Construction *)

\* what the outside world answers during init: all goes well, the module
\* does not open, it has no symbol ladspa_descriptor, the descriptor function
\* returns 0 for the index, instantiate returns 0
Environments == { "ok", "no_module", "no_symbol", "no_descriptor", "no_handle" }

LatencyCandidates ==
    { i \in OutputControlPorts : descriptor.ports[i].name = "latency" }

\* the adapter after the loop over the ports at the end of init
Seeded(rate) ==
    Adapter([ i \in PortIndices |->
                IF LADSPA_IS_PORT_CONTROL(port_descriptor(i))
                THEN default_value(descriptor, rate, i) ELSE 0 ],
            [ i \in PortIndices |->
                IF LADSPA_IS_PORT_CONTROL(port_descriptor(i))
                THEN default_value(descriptor, rate, i) ELSE 0 ],
            FALSE,
            IF LatencyCandidates = {} THEN {}
            ELSE { CHOOSE i \in LatencyCandidates :
                       \A j \in LatencyCandidates : j <= i },
            [ i \in PortIndices |->
                IF LADSPA_IS_PORT_CONTROL(port_descriptor(i))
                THEN Address("control", i, 0) ELSE NotConnected ])

\* init without the latency probe
init_no_probe(rate, env, outs) ==
    IF env = "no_module" \/ env = "no_symbol" \/ env = "no_descriptor"
       \/ descriptor.inplace_broken \/ ~descriptor.has_instantiate
    THEN [ failed |-> TRUE, instantiated |-> FALSE ]
    ELSE IF env = "no_handle"
    THEN [ failed |-> TRUE, instantiated |-> TRUE ]
    ELSE [ failed |-> FALSE, instantiated |-> TRUE,
           probe |-> Outcome(Seeded(rate), << >>, FALSE) ]

\* init testing the inplace-broken property after instantiate
init_late_check(rate, env, outs) ==
    IF env = "no_module" \/ env = "no_symbol" \/ env = "no_descriptor"
       \/ ~descriptor.has_instantiate
    THEN [ failed |-> TRUE, instantiated |-> FALSE ]
    ELSE IF env = "no_handle" \/ descriptor.inplace_broken
    THEN [ failed |-> TRUE, instantiated |-> TRUE ]
    ELSE [ failed |-> FALSE, instantiated |-> TRUE,
           probe |-> latency_compute_run(Seeded(rate), outs) ]

\* LadspaPlugin::init: failed (failed_constructor thrown), whether
\* instantiate was called, and the probe's outcome
init(rate, env, outs) ==
    IF env = "no_module" \/ env = "no_symbol" \/ env = "no_descriptor"
       \/ descriptor.inplace_broken \/ ~descriptor.has_instantiate
    THEN [ failed |-> TRUE, instantiated |-> FALSE ]
    ELSE IF env = "no_handle"
    THEN [ failed |-> TRUE, instantiated |-> TRUE ]
    ELSE [ failed |-> FALSE, instantiated |-> TRUE,
           probe |-> latency_compute_run(Seeded(rate), outs) ]

\* the loop of the copy constructor on the outcome r of init: both arrays
\* of the new adapter take the shadow values of other, on every port
copy_values(r, other) ==
    IF r.failed
    THEN r
    ELSE [ r EXCEPT !.probe.adapter.shadow = other.shadow,
                    !.probe.adapter.control = other.shadow ]

\* LadspaPlugin::LadspaPlugin (const LadspaPlugin& other)
copy_construct(other, rate, env, outs) == copy_values(init(rate, env, outs), other)

------------------------------------------------------------------------------
(* State documents: XMLNode, with string-valued properties *)

DigitChars == << "0", "1", "2", "3", "4", "5", "6", "7", "8", "9" >>

\* the value of each decimal digit
DigitValues == [ c \in { DigitChars[d] : d \in 1 .. 10 } |->
                   (CHOOSE d \in 1 .. 10 : DigitChars[d] = c) - 1 ]

IsDigit(c) == c \in DOMAIN DigitValues

DigitValue(c) == DigitValues[c]

RECURSIVE UIntToString(_)
\* an unsigned integer in decimal
UIntToString(n) ==
    IF n < 10
    THEN << DigitChars[n + 1] >>
    ELSE UIntToString(n \div 10) \o << DigitChars[(n % 10) + 1] >>

RECURSIVE DigitPrefix(_)
\* the leading decimal digits of a string
DigitPrefix(s) ==
    IF s = << >> \/ ~IsDigit(Head(s))
    THEN << >>
    ELSE << Head(s) >> \o DigitPrefix(Tail(s))

RECURSIVE DigitsValue(_)
DigitsValue(s) ==
    IF s = << >>
    THEN 0
    ELSE 10 * DigitsValue(SubSeq(s, 1, Len(s) - 1)) + DigitValue(s[Len(s)])

\* sscanf (s, "%" PRIu32, &id): the conversion succeeds on leading digits
ScanUInt(s) ==
    LET ds == DigitPrefix(s)
    IN  [ ok |-> ds # << >>, val |-> DigitsValue(ds) ]

\* a float as text: sign, integer part, and the fraction when there is one
FloatToString(v) ==
    IF v = NaN
    THEN << "n", "a", "n" >>
    ELSE LET m == IF v < 0 THEN 0 - v ELSE v
             frac == CASE m % 4 = 0 -> << >>
                       [] m % 4 = 1 -> << ".", "2", "5" >>
                       [] m % 4 = 2 -> << ".", "5" >>
                       [] m % 4 = 3 -> << ".", "7", "5" >>
         IN  (IF v < 0 THEN << "-" >> ELSE << >>) \o UIntToString(m \div 4) \o frac

\* the float a text starts with: [ok, val]; ok is FALSE when no number starts
\* the text
ScanFloat(s) ==
    IF Len(s) >= 3 /\ SubSeq(s, 1, 3) = << "n", "a", "n" >>
    THEN [ ok |-> TRUE, val |-> NaN ]
    ELSE LET neg == s # << >> /\ Head(s) = "-"
             body == IF neg THEN Tail(s) ELSE s
             ip == DigitPrefix(body)
             rest == SubSeq(body, Len(ip) + 1, Len(body))
             fp == IF rest # << >> /\ Head(rest) = "." THEN DigitPrefix(Tail(rest))
                   ELSE << >>
             m == 4 * DigitsValue(ip) + (4 * DigitsValue(fp)) \div (10 ^ Len(fp))
         IN  [ ok |-> ip # << >> \/ fp # << >>,
               val |-> IF neg THEN 0 - m ELSE m ]

\* atof (s): 0.0 when no number starts the text
atof(s) == LET r == ScanFloat(s) IN IF r.ok THEN r.val ELSE 0

\* an XMLNode child: its tag and its "number" and "value" properties
Child(tag, hasNumber, number, hasValue, value) ==
    [ tag |-> tag, has_number |-> hasNumber, number |-> number,
      has_value |-> hasValue, value |-> value ]

Document(name, children) == [ name |-> name, children |-> children ]

\* state_node_name ()
state_node_name == "ladspa"

RECURSIVE PortChildren_every_control(_, _)
\* the loop of add_state writing an entry for every control port
PortChildren_every_control(a, i) ==
    IF i >= parameter_count
    THEN << >>
    ELSE (IF LADSPA_IS_PORT_CONTROL(port_descriptor(i))
          THEN << Child("Port", TRUE, UIntToString(i), TRUE,
                        FloatToString(a.shadow[i])) >>
          ELSE << >>) \o PortChildren_every_control(a, i + 1)

RECURSIVE PortChildren(_, _)
\* the loop of add_state from port i on
PortChildren(a, i) ==
    IF i >= parameter_count
    THEN << >>
    ELSE (IF LADSPA_IS_PORT_INPUT(port_descriptor(i))
             /\ LADSPA_IS_PORT_CONTROL(port_descriptor(i))
          THEN << Child("Port", TRUE, UIntToString(i), TRUE,
                        FloatToString(a.shadow[i])) >>
          ELSE << >>) \o PortChildren(a, i + 1)

\* add_state writing the live values
add_state_live(a) ==
    Document(state_node_name, PortChildren([ a EXCEPT !.shadow = a.control ], 0))

\* LadspaPlugin::add_state, on a root node of the state node name
add_state(a) == Document(state_node_name, PortChildren(a, 0))

\* node.children (tag)
ChildrenNamed(d, tag) == SelectSeq(d.children, LAMBDA c : c.tag = tag)

RECURSIVE ApplyPorts_stop(_, _, _)
\* the loop of set_state leaving at the first entry that lacks a property
ApplyPorts_stop(a, nodes, n) ==
    IF nodes = << >>
    THEN [ adapter |-> a, propagated |-> n ]
    ELSE LET child == Head(nodes)
             id == ScanUInt(child.number)
             value == ScanFloat(child.value)
         IN  IF ~child.has_number \/ ~id.ok
             THEN [ adapter |-> a, propagated |-> n ]
             ELSE IF ~child.has_value \/ ~value.ok
             THEN [ adapter |-> a, propagated |-> n ]
             ELSE LET r == set_parameter(a, id.val, value.val)
                  IN  ApplyPorts_stop(r.adapter, Tail(nodes),
                                      n + (IF r.propagated THEN 1 ELSE 0))

RECURSIVE ApplyPorts(_, _, _)
\* the loop of set_state over the "Port" children: the adapter after it and
\* the number of Plugin::set_parameter calls it made
ApplyPorts(a, nodes, n) ==
    IF nodes = << >>
    THEN [ adapter |-> a, propagated |-> n ]
    ELSE LET child == Head(nodes)
             id == ScanUInt(child.number)
             value == ScanFloat(child.value)
         IN  IF ~child.has_number \/ ~id.ok
             THEN ApplyPorts(a, Tail(nodes), n)
             ELSE IF ~child.has_value \/ ~value.ok
             THEN ApplyPorts(a, Tail(nodes), n)
             ELSE LET r == set_parameter(a, id.val, value.val)
                  IN  ApplyPorts(r.adapter, Tail(nodes),
                                 n + (IF r.propagated THEN 1 ELSE 0))

RECURSIVE ApplyPorts2X(_, _, _, _)
\* the loop of set_state_2X over the "port" children; port_id keeps its
\* value when sscanf converts nothing
ApplyPorts2X(a, nodes, port_id, n) ==
    IF nodes = << >>
    THEN [ adapter |-> a, propagated |-> n ]
    ELSE LET child == Head(nodes)
             id == ScanUInt(child.number)
             next_id == IF id.ok THEN id.val ELSE port_id
         IN  IF ~child.has_number \/ ~child.has_value
             THEN ApplyPorts2X(a, Tail(nodes), port_id, n)
             ELSE LET r == set_parameter(a, next_id, atof(child.value))
                  IN  ApplyPorts2X(r.adapter, Tail(nodes), next_id,
                                   n + (IF r.propagated THEN 1 ELSE 0))

\* LadspaPlugin::set_state_2X; garbage: what the uninitialized port_id holds
set_state_2X(a, node, garbage, outs) ==
    IF node.name # state_node_name
    THEN [ result |-> 0 - 1, outcome |-> Outcome(a, << >>, FALSE), propagated |-> 0 ]
    ELSE LET r == ApplyPorts2X(a, ChildrenNamed(node, "port"), garbage, 0)
         IN  [ result |-> 0, outcome |-> latency_compute_run(r.adapter, outs),
               propagated |-> r.propagated ]

\* set_state without the test of the node name in the current format
set_state_any_name(a, node, version, garbage, outs) ==
    IF version < 3000
    THEN set_state_2X(a, node, garbage, outs)
    ELSE LET r == ApplyPorts(a, ChildrenNamed(node, "Port"), 0)
         IN  [ result |-> 0, outcome |-> latency_compute_run(r.adapter, outs),
               propagated |-> r.propagated ]

\* set_state returning in the current format without the latency probe
set_state_no_probe(a, node, version, garbage, outs) ==
    IF version < 3000
    THEN set_state_2X(a, node, garbage, outs)
    ELSE IF node.name # state_node_name
    THEN [ result |-> 0 - 1, outcome |-> Outcome(a, << >>, FALSE), propagated |-> 0 ]
    ELSE LET r == ApplyPorts(a, ChildrenNamed(node, "Port"), 0)
         IN  [ result |-> 0, outcome |-> Outcome(r.adapter, << >>, FALSE),
               propagated |-> r.propagated ]

\* LadspaPlugin::set_state
set_state(a, node, version, garbage, outs) ==
    IF version < 3000
    THEN set_state_2X(a, node, garbage, outs)
    ELSE IF node.name # state_node_name
    THEN [ result |-> 0 - 1, outcome |-> Outcome(a, << >>, FALSE), propagated |-> 0 ]
    ELSE LET r == ApplyPorts(a, ChildrenNamed(node, "Port"), 0)
         IN  [ result |-> 0, outcome |-> latency_compute_run(r.adapter, outs),
               propagated |-> r.propagated ]

------------------------------------------------------------------------------
(* Buffer routing: LadspaPlugin::connect_and_run *)

AudioInputCount ==
    Cardinality({ i \in PortIndices : LADSPA_IS_PORT_AUDIO(port_descriptor(i))
                                      /\ LADSPA_IS_PORT_INPUT(port_descriptor(i)) })

AudioOutputCount ==
    Cardinality({ i \in PortIndices : LADSPA_IS_PORT_AUDIO(port_descriptor(i))
                                      /\ ~LADSPA_IS_PORT_INPUT(port_descriptor(i))
                                      /\ LADSPA_IS_PORT_OUTPUT(port_descriptor(i)) })

\* the channel maps a host may pass for n channels: each position is mapped
\* to a buffer of the BufferSet or is not mapped
ChanMappings(n) ==
    UNION { [ S -> 0 .. MaxBuf ] : S \in SUBSET (0 .. n - 1) }

\* the two plainest maps for n channels: every position on buffer 0, and
\* no position mapped
PlainMappings(n) == { [ k \in 0 .. n - 1 |-> 0 ], << >> }

\* ChanMapping::get (DataType::AUDIO, from, &valid)
ChanGet(map, from) ==
    IF from \in DOMAIN map
    THEN [ valid |-> TRUE, buf |-> map[from] ]
    ELSE [ valid |-> FALSE, buf |-> 0 ]

RECURSIVE Route_shared_counter(_, _, _, _, _, _, _)
\* the loop with one position counter for inputs and outputs alike
Route_shared_counter(conn, port_index, audio_in_index, audio_out_index, in_map, out_map, offset) ==
    IF port_index >= parameter_count
    THEN conn
    ELSE IF LADSPA_IS_PORT_AUDIO(port_descriptor(port_index))
    THEN IF LADSPA_IS_PORT_INPUT(port_descriptor(port_index))
         THEN LET g == ChanGet(in_map, audio_in_index + audio_out_index)
              IN  Route_shared_counter([ conn EXCEPT ![port_index] =
                            IF g.valid THEN Address("bufs", g.buf, offset)
                            ELSE Address("silent", 0, offset) ],
                        port_index + 1, audio_in_index + 1, audio_out_index,
                        in_map, out_map, offset)
         ELSE IF LADSPA_IS_PORT_OUTPUT(port_descriptor(port_index))
         THEN LET g == ChanGet(out_map, audio_in_index + audio_out_index)
              IN  Route_shared_counter([ conn EXCEPT ![port_index] =
                            IF g.valid THEN Address("bufs", g.buf, offset)
                            ELSE Address("scratch", 0, offset) ],
                        port_index + 1, audio_in_index, audio_out_index + 1,
                        in_map, out_map, offset)
         ELSE Route_shared_counter(conn, port_index + 1, audio_in_index, audio_out_index,
                    in_map, out_map, offset)
    ELSE Route_shared_counter(conn, port_index + 1, audio_in_index, audio_out_index,
               in_map, out_map, offset)

RECURSIVE Route_silent_output(_, _, _, _, _, _, _)
\* the loop giving the silent buffer to an output that is not mapped
Route_silent_output(conn, port_index, audio_in_index, audio_out_index, in_map, out_map, offset) ==
    IF port_index >= parameter_count
    THEN conn
    ELSE IF LADSPA_IS_PORT_AUDIO(port_descriptor(port_index))
    THEN IF LADSPA_IS_PORT_INPUT(port_descriptor(port_index))
         THEN LET g == ChanGet(in_map, audio_in_index)
              IN  Route_silent_output([ conn EXCEPT ![port_index] =
                            IF g.valid THEN Address("bufs", g.buf, offset)
                            ELSE Address("silent", 0, offset) ],
                        port_index + 1, audio_in_index + 1, audio_out_index,
                        in_map, out_map, offset)
         ELSE IF LADSPA_IS_PORT_OUTPUT(port_descriptor(port_index))
         THEN LET g == ChanGet(out_map, audio_out_index)
              IN  Route_silent_output([ conn EXCEPT ![port_index] =
                            IF g.valid THEN Address("bufs", g.buf, offset)
                            ELSE Address("silent", 0, offset) ],
                        port_index + 1, audio_in_index, audio_out_index + 1,
                        in_map, out_map, offset)
         ELSE Route_silent_output(conn, port_index + 1, audio_in_index, audio_out_index,
                    in_map, out_map, offset)
    ELSE Route_silent_output(conn, port_index + 1, audio_in_index, audio_out_index,
               in_map, out_map, offset)

RECURSIVE Route(_, _, _, _, _, _, _)
\* the loop of connect_and_run from port_index on
Route(conn, port_index, audio_in_index, audio_out_index, in_map, out_map, offset) ==
    IF port_index >= parameter_count
    THEN conn
    ELSE IF LADSPA_IS_PORT_AUDIO(port_descriptor(port_index))
    THEN IF LADSPA_IS_PORT_INPUT(port_descriptor(port_index))
         THEN LET g == ChanGet(in_map, audio_in_index)
              IN  Route([ conn EXCEPT ![port_index] =
                            IF g.valid THEN Address("bufs", g.buf, offset)
                            ELSE Address("silent", 0, offset) ],
                        port_index + 1, audio_in_index + 1, audio_out_index,
                        in_map, out_map, offset)
         ELSE IF LADSPA_IS_PORT_OUTPUT(port_descriptor(port_index))
         THEN LET g == ChanGet(out_map, audio_out_index)
              IN  Route([ conn EXCEPT ![port_index] =
                            IF g.valid THEN Address("bufs", g.buf, offset)
                            ELSE Address("scratch", 0, offset) ],
                        port_index + 1, audio_in_index, audio_out_index + 1,
                        in_map, out_map, offset)
         ELSE Route(conn, port_index + 1, audio_in_index, audio_out_index,
                    in_map, out_map, offset)
    ELSE Route(conn, port_index + 1, audio_in_index, audio_out_index,
               in_map, out_map, offset)

\* LadspaPlugin::connect_and_run
connect_and_run(a, in_map, out_map, offset, outs) ==
    run_in_place([ a EXCEPT !.conn = Route(a.conn, 0, 0, 0, in_map, out_map, offset) ],
                 outs)

------------------------------------------------------------------------------
(* The state machine *)

\* the adapter the host holds; the addresses of the audio ports are those of
\* the call that runs the plugin, every run being preceded in the same call
\* by connect_port on every audio port
this ==
    Adapter(shadow_data, control_data, was_activated, latency_control_port,
            [ i \in PortIndices |->
                IF LADSPA_IS_PORT_CONTROL(port_descriptor(i))
                THEN Address("control", i, 0) ELSE NotConnected ])

Put(a) ==
    /\ shadow_data' = a.shadow
    /\ control_data' = a.control
    /\ was_activated' = a.activated
    /\ latency_control_port' = a.latency

Static == UNCHANGED << desc, plugin_k, plugin_const, hinted, resolved,
                      visible, held >>

\* the addresses the plugin writes audio to in a run
WrittenBuffers(run) ==
    { run.conn[i] : i \in { j \in PortIndices :
                              /\ LADSPA_IS_PORT_AUDIO(port_descriptor(j))
                              /\ LADSPA_IS_PORT_OUTPUT(port_descriptor(j)) } }

\* the addresses the plugin reads audio from in a run
ReadBuffers(run) ==
    { run.conn[i] : i \in { j \in PortIndices :
                              /\ LADSPA_IS_PORT_AUDIO(port_descriptor(j))
                              /\ LADSPA_IS_PORT_INPUT(port_descriptor(j)) } }

\* the silent buffer stays zero unless a run of the call wrote audio to it
Silence ==
    silent_zero' = (/\ silent_zero
                    /\ \A n \in 1 .. Len(lastRun') :
                           \A w \in WrittenBuffers(lastRun'[n]) : w.kind # "silent")

\* no default has been resolved
NotResolved == [ done |-> FALSE, unscaled |-> 0, value |-> 0 ]

InitWith(plugins) ==
    /\ desc \in plugins
    /\ plugin_const \in (IF LatencyCandidates # {} THEN BOOLEAN ELSE { FALSE })
    /\ plugin_k \in (IF plugin_const THEN LatencyConstants ELSE { 0 })
    /\ lifecycle = "none"
    /\ sample_rate = 0
    /\ shadow_data = << >>
    /\ control_data = << >>
    /\ was_activated = FALSE
    /\ latency_control_port = {}
    /\ doc = Document("none", << >>)
    /\ doc_shadow = << >>
    /\ silent_zero = TRUE
    /\ hinted = Port("in", "control", "none", NoHint, 0, 0)
    /\ resolved = NotResolved
    /\ visible = << >>
    /\ held = << >>
    /\ lastOp = [ op |-> "none" ]
    /\ lastRun = << >>

Init == InitWith(HostedPlugins)

\* LadspaPluginInfo::load: a new LadspaPlugin, or null when init throws
Load(rate, env, outs) ==
    /\ lifecycle # "aborted"
    /\ \E r \in { init(rate, env, outs) } :
           /\ lastOp' = [ op |-> "load", env |-> env, failed |-> r.failed,
                          instantiated |-> r.instantiated ]
           /\ sample_rate' = rate
           /\ IF r.failed
              THEN /\ lifecycle' = "failed"
                   /\ shadow_data' = << >>
                   /\ control_data' = << >>
                   /\ was_activated' = FALSE
                   /\ latency_control_port' = {}
                   /\ lastRun' = << >>
              ELSE /\ lifecycle' = "ok"
                   /\ Put(r.probe.adapter)
                   /\ lastRun' = r.probe.runs
    /\ UNCHANGED << doc, doc_shadow >>
    /\ Static
    /\ Silence

\* LadspaPlugin::activate
Activate ==
    /\ lifecycle = "ok"
    /\ Put(activate(this))
    /\ lastOp' = [ op |-> "activate" ]
    /\ lastRun' = << >>
    /\ UNCHANGED << lifecycle, sample_rate, doc, doc_shadow >>
    /\ Static
    /\ Silence

\* LadspaPlugin::deactivate
Deactivate ==
    /\ lifecycle = "ok"
    /\ Put(deactivate(this))
    /\ lastOp' = [ op |-> "deactivate" ]
    /\ lastRun' = << >>
    /\ UNCHANGED << lifecycle, sample_rate, doc, doc_shadow >>
    /\ Static
    /\ Silence

\* the host calls set_parameter (which, val, 0)
SetParameter(which, val) ==
    /\ lifecycle = "ok"
    /\ \E r \in { set_parameter(this, which, val) } :
           /\ Put(r.adapter)
           /\ lastOp' = [ op |-> "set_parameter", which |-> which, val |-> val,
                          propagated |-> r.propagated,
                          again |-> /\ lastOp.op = "set_parameter"
                                    /\ lastOp.which = which
                                    /\ lastOp.val = val ]
    /\ lastRun' = << >>
    /\ UNCHANGED << lifecycle, sample_rate, doc, doc_shadow >>
    /\ Static
    /\ Silence

\* the host calls connect_and_run
Process(in_map, out_map, offset, outs) ==
    /\ lifecycle = "ok"
    /\ \E r \in { connect_and_run(this, in_map, out_map, offset, outs) } :
           /\ Put(r.adapter)
           /\ lifecycle' = IF r.aborted THEN "aborted" ELSE "ok"
           /\ lastRun' = r.runs
    /\ lastOp' = [ op |-> "process", in_map |-> in_map, out_map |-> out_map,
                   offset |-> offset, activated |-> was_activated ]
    /\ UNCHANGED << sample_rate, doc, doc_shadow >>
    /\ Static
    /\ Silence

\* the host saves the state: add_state on a new state node
AddState ==
    /\ lifecycle = "ok"
    /\ doc' = add_state(this)
    /\ doc_shadow' = [ i \in InputControlPorts |-> shadow_data[i] ]
    /\ lastOp' = [ op |-> "add_state" ]
    /\ lastRun' = << >>
    /\ UNCHANGED << lifecycle, sample_rate, shadow_data, control_data,
                    was_activated, latency_control_port >>
    /\ Static
    /\ Silence

\* documents a host may hand to set_state besides the saved one: one of
\* another node name, one with entries that lack a property, and two of
\* the legacy format with a port number that is no number
OtherDocuments ==
    { Document("bad", << Child("Port", TRUE, << "0" >>, TRUE, << "1" >>) >>),
      Document(state_node_name,
               << Child("Port", FALSE, << >>, TRUE, << "1" >>),
                  Child("Port", TRUE, << "0" >>, FALSE, << >>),
                  Child("Port", TRUE, << "1" >>, TRUE, << "1", ".", "0" >>) >>),
      Document(state_node_name,
               << Child("port", TRUE, << "1" >>, TRUE, << "1" >>),
                  Child("port", TRUE, << "x" >>, TRUE, << "0" >>) >>),
      Document(state_node_name,
               << Child("port", TRUE, << "x" >>, TRUE, << "1" >>) >>) }

\* set_state_2X reads port_id before any sscanf has set it
ReadsGarbage(node, version) ==
    LET ports == ChildrenNamed(node, "port")
    IN  /\ version < 3000
        /\ node.name = state_node_name
        /\ \E i \in 1 .. Len(ports) :
             /\ ports[i].has_number
             /\ ports[i].has_value
             /\ ~ScanUInt(ports[i].number).ok
             /\ \A j \in 1 .. i - 1 :
                    \/ ~ports[j].has_number
                    \/ ~ports[j].has_value
                    \/ ~ScanUInt(ports[j].number).ok

\* the values port_id may hold when set_state_2X first reads it: anything
\* when no sscanf has set it, and of no account otherwise
GarbageValues(node, version) ==
    IF ReadsGarbage(node, version) THEN 0 .. parameter_count ELSE { 0 }

\* the host calls set_state (node, version)
SetState(node, version, garbage, outs) ==
    /\ lifecycle = "ok"
    /\ \E r \in { set_state(this, node, version, garbage, outs) } :
           /\ Put(r.outcome.adapter)
           /\ lifecycle' = IF r.outcome.aborted THEN "aborted" ELSE "ok"
           /\ lastRun' = r.outcome.runs
           /\ lastOp' = [ op |-> "set_state", version |-> version,
                          saved |-> node = doc, fresh |-> lastOp.op = "load",
                          name_ok |-> node.name = state_node_name,
                          result |-> r.result ]
    /\ UNCHANGED << sample_rate, doc, doc_shadow >>
    /\ Static
    /\ Silence

Next ==
    \/ \E rate \in SampleRates, env \in Environments, outs \in PluginOuts :
           Load(rate, env, outs)
    \/ Activate
    \/ Deactivate
    \/ \E which \in 0 .. parameter_count, val \in HostValues :
           SetParameter(which, val)
    \/ \E in_map \in PlainMappings(AudioInputCount),
          out_map \in PlainMappings(AudioOutputCount), outs \in PluginOuts :
           Process(in_map, out_map, 0, outs)
    \/ AddState
    \/ \E node \in { doc } \cup OtherDocuments, version \in { 2000, 3000 } :
           \E garbage \in GarbageValues(node, version), outs \in PluginOuts :
               SetState(node, version, garbage, outs)

Spec == Init /\ [][Next]_vars

\* the processing calls in full: every channel map and frame offset, on the
\* adapter as constructed
NextRouting ==
    \/ \E rate \in SampleRates, env \in Environments, outs \in PluginOuts :
           Load(rate, env, outs)
    \/ Activate
    \/ Deactivate
    \/ \E in_map \in ChanMappings(AudioInputCount),
          out_map \in ChanMappings(AudioOutputCount),
          offset \in Offsets, outs \in PluginOuts :
           Process(in_map, out_map, offset, outs)

SpecRouting == InitWith(RoutedPlugins) /\ [][NextRouting]_vars

------------------------------------------------------------------------------
(* The default resolver alone, on one control port of any hint *)

\* the values of the default field of a hint descriptor: none set (the hint
\* has no default), the nine values ladspa.h names, and a value of the
\* default mask that it names not
DefaultKinds == { "none", "minimum", "low", "middle", "high", "maximum",
                  "0", "1", "100", "440", "unknown" }

HintRates == { 44100, 48000 }

HintBounds == (0 - MaxBound) .. MaxBound

\* a control input port of any hint descriptor, with its bounds in order
HintedPorts ==
    { Port("in", "control", "p", Hint(k, below, above, sr, logar), lo, hi) :
        k \in DefaultKinds, below \in BOOLEAN, above \in BOOLEAN,
        sr \in BOOLEAN, logar \in BOOLEAN,
        lo \in HintBounds, hi \in HintBounds }

InitDefaults ==
    /\ desc = 1
    /\ plugin_const = FALSE
    /\ plugin_k = 0
    /\ lifecycle = "none"
    /\ sample_rate \in HintRates
    /\ shadow_data = << >>
    /\ control_data = << >>
    /\ was_activated = FALSE
    /\ latency_control_port = {}
    /\ doc = Document("none", << >>)
    /\ doc_shadow = << >>
    /\ silent_zero = TRUE
    /\ hinted \in { p \in HintedPorts : p.LowerBound <= p.UpperBound }
    /\ resolved = NotResolved
    /\ visible = << >>
    /\ held = << >>
    /\ lastOp = [ op |-> "none" ]
    /\ lastRun = << >>

\* _default_value (port) is called for the port
ResolveDefault ==
    /\ ~resolved.done
    /\ resolved' = [ done |-> TRUE,
                     unscaled |-> unscaled_default(hinted).ret,
                     value |-> default_value([ ports |-> << hinted >> ],
                                             sample_rate, 1) ]
    /\ UNCHANGED << desc, plugin_k, plugin_const, lifecycle, sample_rate,
                    shadow_data, control_data, was_activated,
                    latency_control_port, doc, doc_shadow, silent_zero, hinted,
                    visible, held, lastOp, lastRun >>

SpecDefaults == InitDefaults /\ [][ResolveDefault]_vars

------------------------------------------------------------------------------
(* Two threads on one adapter: the host thread calls set_parameter while   *)
(* the real-time thread calls connect_and_run.  _shadow_data is a plain    *)
(* float array that both threads access with no lock, atomic or fence, so  *)
(* a store of the host thread reaches the real-time thread at some later   *)
(* moment of its own.  A LADSPA_Data is one aligned 32-bit word, which is  *)
(* loaded and stored whole.                                                *)

\* the plugins hosted with two threads
ThreadedPlugins == { 2 }

\* the adapter after its construction and activate (), both done before the
\* real-time thread is started
InitThreads ==
    /\ desc \in ThreadedPlugins
    /\ plugin_const = FALSE
    /\ plugin_k = 0
    /\ lifecycle = "ok"
    /\ sample_rate \in SampleRates
    /\ \E outs \in PluginOuts :
           \E a \in { activate(init(sample_rate, "ok", outs).probe.adapter) } :
               /\ shadow_data = a.shadow
               /\ control_data = a.control
               /\ was_activated = a.activated
               /\ latency_control_port = a.latency
               /\ visible = a.shadow
               /\ held = [ i \in DOMAIN a.shadow |-> { a.shadow[i] } ]
    /\ doc = Document("none", << >>)
    /\ doc_shadow = << >>
    /\ silent_zero = TRUE
    /\ hinted = Port("in", "control", "none", NoHint, 0, 0)
    /\ resolved = NotResolved
    /\ lastOp = [ op |-> "none" ]
    /\ lastRun = << >>

ThreadsStatic ==
    UNCHANGED << desc, plugin_k, plugin_const, lifecycle, sample_rate, doc,
                 doc_shadow, hinted, resolved, latency_control_port >>

\* the host thread calls set_parameter (which, val, 0) and returns
HostSetParameter(which, val) ==
    /\ lifecycle = "ok"
    /\ \E r \in { set_parameter(this, which, val) } :
           /\ shadow_data' = r.adapter.shadow
           /\ held' = [ i \in DOMAIN held |->
                          held[i] \cup { r.adapter.shadow[i] } ]
           /\ lastOp' = [ op |-> "set_parameter", which |-> which, val |-> val,
                          propagated |-> r.propagated ]
    /\ lastRun' = << >>
    /\ UNCHANGED << control_data, was_activated, visible, silent_zero >>
    /\ ThreadsStatic

\* the host thread's store to _shadow_data[i] reaches the real-time thread
Publish(i) ==
    /\ lifecycle = "ok"
    /\ visible[i] # shadow_data[i]
    /\ visible' = [ visible EXCEPT ![i] = shadow_data[i] ]
    /\ UNCHANGED << shadow_data, control_data, was_activated, held,
                    silent_zero, lastOp, lastRun >>
    /\ ThreadsStatic

\* the real-time thread calls connect_and_run; latest: what the set_parameter
\* calls completed so far have stored
RtProcess(in_map, out_map, offset, outs) ==
    /\ lifecycle = "ok"
    /\ \E r \in { connect_and_run([ this EXCEPT !.shadow = visible ],
                                     in_map, out_map, offset, outs) } :
           /\ control_data' = r.adapter.control
           /\ was_activated' = r.adapter.activated
           /\ lastRun' = r.runs
    /\ lastOp' = [ op |-> "process", latest |-> shadow_data ]
    /\ UNCHANGED << shadow_data, visible, held >>
    /\ ThreadsStatic
    /\ Silence

NextThreads ==
    \/ \E which \in PortIndices, val \in HostValues :
           HostSetParameter(which, val)
    \/ \E i \in PortIndices : Publish(i)
    \/ \E in_map \in PlainMappings(AudioInputCount),
          out_map \in PlainMappings(AudioOutputCount), outs \in PluginOuts :
           RtProcess(in_map, out_map, 0, outs)

SpecThreads == InitThreads /\ [][NextThreads]_vars

------------------------------------------------------------------------------
(* set_state alone, on every small state document, in both formats *)

LoadedPlugins == { 1, 2 }

\* the texts of a "number" property and of a "value" property
NumberTexts == { << "0" >>, << "1" >>, << "x" >> }
ValueTexts == { << "0" >>, << "1" >> }

\* a property of an entry: absent, or present with one of the texts
Properties(texts) ==
    { [ has |-> FALSE, text |-> << >> ] } \cup
    { [ has |-> TRUE, text |-> t ] : t \in texts }

\* the entries of a state document: each with or without its "number" and
\* its "value" property
LoadEntries ==
    { Child("Port", n.has, n.text, v.has, v.text) :
        n \in Properties(NumberTexts), v \in Properties(ValueTexts) }

\* the state documents of up to MaxEntries entries
LoadDocuments ==
    { Document(state_node_name, es) :
        es \in UNION { [ 1 .. n -> LoadEntries ] : n \in 0 .. MaxEntries } }

\* the tag of the entries in the format of a version: "port" before 3000
FormatTag(version) == IF version < 3000 THEN "port" ELSE "Port"

\* the document d with its entries under another tag
Retag(d, tag) ==
    Document(d.name, [ i \in DOMAIN d.children |->
                         [ d.children[i] EXCEPT !.tag = tag ] ])

\* the adapter as constructed, and a state document to load
InitLoad ==
    /\ desc \in LoadedPlugins
    /\ plugin_const \in (IF LatencyCandidates # {} THEN BOOLEAN ELSE { FALSE })
    /\ plugin_k \in (IF plugin_const THEN LatencyConstants ELSE { 0 })
    /\ lifecycle = "ok"
    /\ sample_rate \in SampleRates
    /\ \E outs \in PluginOuts :
           \E a \in { init(sample_rate, "ok", outs).probe.adapter } :
               /\ shadow_data = a.shadow
               /\ control_data = a.control
               /\ was_activated = a.activated
               /\ latency_control_port = a.latency
    /\ doc \in LoadDocuments
    /\ doc_shadow = << >>
    /\ silent_zero = TRUE
    /\ hinted = Port("in", "control", "none", NoHint, 0, 0)
    /\ resolved = NotResolved
    /\ visible = << >>
    /\ held = << >>
    /\ lastOp = [ op |-> "load" ]
    /\ lastRun = << >>

\* the host hands the document to set_state, in either format
NextLoad ==
    \E version \in { 2000, 3000 } :
        \E garbage \in GarbageValues(Retag(doc, FormatTag(version)), version),
           outs \in PluginOuts :
            SetState(Retag(doc, FormatTag(version)), version, garbage, outs)

SpecLoad == InitLoad /\ [][NextLoad]_vars

------------------------------------------------------------------------------
(* Copies: the host replaces its adapter by a copy of it *)

CopiedPlugins == { 1, 2 }

\* the copy constructor, called on the adapter the host holds
Copy(env, outs) ==
    /\ lifecycle = "ok"
    /\ \E r \in { copy_construct(this, sample_rate, env, outs) } :
           /\ lastOp' = [ op |-> "copy", failed |-> r.failed,
                          source |-> shadow_data ]
           /\ IF r.failed
              THEN /\ lifecycle' = "failed"
                   /\ shadow_data' = << >>
                   /\ control_data' = << >>
                   /\ was_activated' = FALSE
                   /\ latency_control_port' = {}
                   /\ lastRun' = << >>
              ELSE /\ lifecycle' = "ok"
                   /\ Put(r.probe.adapter)
                   /\ lastRun' = r.probe.runs
    /\ UNCHANGED << sample_rate, doc, doc_shadow >>
    /\ Static
    /\ Silence

NextCopy ==
    \/ \E rate \in SampleRates, env \in Environments, outs \in PluginOuts :
           Load(rate, env, outs)
    \/ \E which \in 0 .. parameter_count, val \in HostValues :
           SetParameter(which, val)
    \/ \E env \in Environments, outs \in PluginOuts : Copy(env, outs)

SpecCopy == InitWith(CopiedPlugins) /\ [][NextCopy]_vars

------------------------------------------------------------------------------
(* The claims *)

\* C1: after set_parameter (i, v) on a valid index i of an input-direction
\* port, get_parameter (i) returns v at once, in every state of the adapter
\* and with no processing call in between.
C1_SetThenGet ==
    (/\ lastOp.op = "set_parameter"
     /\ lastOp.which < parameter_count
     /\ LADSPA_IS_PORT_INPUT(port_descriptor(lastOp.which)))
    => get_parameter(this, lastOp.which) = lastOp.val

\* the value just set is returned while the live slot still holds another
C1_Witness ==
    /\ lastOp.op = "set_parameter"
    /\ lastOp.which \in InputControlPorts
    /\ lastOp.propagated
    /\ get_parameter(this, lastOp.which) = lastOp.val
    /\ control_data[lastOp.which] # lastOp.val

\* C2: at every invocation of the plugin's run(), from connect_and_run or
\* from the latency probe, the live value of every input control port equals
\* its shadow value, the copy having been made once in that call and before
\* the invocation, and the live value of every output control port is the
\* one it had when run_in_place was entered.
C2_CopyBeforeRun ==
    \A n \in 1 .. Len(lastRun) :
        /\ \A i \in InputControlPorts :
               lastRun[n].control[i] = lastRun[n].shadow[i]
        /\ lastRun[n].copies = 1
        /\ \A i \in OutputControlPorts :
               lastRun[n].control[i] = lastRun[n].entry[i]

\* a processing call whose copy changed the live value of an input control
\* port, on a plugin that has an output control port too
C2_Witness ==
    /\ lastOp.op = "process"
    /\ Len(lastRun) = 1
    /\ OutputControlPorts # {}
    /\ \E i \in InputControlPorts :
           /\ lastRun[1].entry[i] # lastRun[1].control[i]
           /\ lastRun[1].control[i] = shadow_data[i]

\* C3: the plugin's run() is never invoked while the adapter is not
\* activated: a processing call on an adapter that is not activated fails
\* fatally and does not run the plugin.
C3_NoRunUnlessActivated ==
    /\ \A n \in 1 .. Len(lastRun) : lastRun[n].activated
    /\ (lastOp.op = "process" /\ ~lastOp.activated)
       => (lifecycle = "aborted" /\ lastRun = << >>)

\* a processing call on a deactivated adapter has aborted
C3_Witness ==
    /\ lastOp.op = "process"
    /\ ~lastOp.activated
    /\ lifecycle = "aborted"

\* C4: loading, in the current format, the document that add_state wrote
\* for an adapter makes the shadow value of every input control port of the
\* loading adapter equal to the saved adapter's shadow value.
C4_RoundTrip ==
    (/\ lastOp.op = "set_state"
     /\ lastOp.saved
     /\ lastOp.version >= 3000
     /\ doc.name = state_node_name)
    => \A i \in InputControlPorts : shadow_data[i] = doc_shadow[i]

\* a freshly constructed adapter has loaded a saved value that is not the
\* default it was seeded with
C4_Witness ==
    /\ lastOp.op = "set_state"
    /\ lastOp.saved
    /\ lastOp.fresh
    /\ lastOp.version >= 3000
    /\ doc.name = state_node_name
    /\ \E i \in InputControlPorts :
           /\ shadow_data[i] = doc_shadow[i]
           /\ shadow_data[i] # default_value(descriptor, sample_rate, i)

\* C5: of two identical calls set_parameter (i, v) in a row on a valid index
\* i, whatever the direction of the port, the second does not call
\* Plugin::set_parameter: the update and its propagation happen once.
C5_SecondCallElided ==
    (/\ lastOp.op = "set_parameter"
     /\ lastOp.again
     /\ lastOp.which < parameter_count)
    => ~lastOp.propagated

\* C6: a call set_parameter (i, v) on an output-direction port i leaves the
\* value that get_parameter (i) returns as it was: that value is the live
\* one, which only the plugin writes.
C6_OutputUnaffected ==
    [][ (/\ lastOp'.op = "set_parameter"
         /\ lastOp'.which < parameter_count
         /\ LADSPA_IS_PORT_OUTPUT(port_descriptor(lastOp'.which)))
        => (/\ get_parameter(this', lastOp'.which) = get_parameter(this, lastOp'.which)
            /\ get_parameter(this', lastOp'.which) = control_data[lastOp'.which]) ]_vars

\* set_parameter stored a value for an output control port and get_parameter
\* still returns another, the live one
C6_Witness ==
    /\ lastOp.op = "set_parameter"
    /\ lastOp.which \in OutputControlPorts
    /\ lastOp.propagated
    /\ shadow_data[lastOp.which] = lastOp.val
    /\ get_parameter(this, lastOp.which) # lastOp.val
    /\ get_parameter(this, lastOp.which) = control_data[lastOp.which]

\* C7: right after the construction of an adapter for a plugin that has a
\* latency port and writes the constant k to it on every run, with no
\* activate or processing call by the host, plugin_latency () is floor (k),
\* and the adapter is left deactivated.
C7_LatencyAfterConstruction ==
    (/\ lastOp.op = "load"
     /\ lifecycle = "ok"
     /\ plugin_const
     /\ latency_control_port # {})
    => (/\ plugin_latency(this) = Floor(plugin_k)
        /\ ~was_activated)

\* a plugin reporting 1.5 has been constructed and its latency reads 1
C7_Witness ==
    /\ lastOp.op = "load"
    /\ lifecycle = "ok"
    /\ plugin_const
    /\ latency_control_port # {}
    /\ plugin_k = 6
    /\ plugin_latency(this) = 1
    /\ Len(lastRun) = 1

\* C8: the construction of an adapter for a plugin that declares itself
\* inplace-broken fails before instantiate is called, and after a failed
\* construction of any kind the load has returned null: no adapter exists.
C8_ConstructionFailure ==
    lastOp.op = "load" =>
        /\ descriptor.inplace_broken
           => (lastOp.failed /\ ~lastOp.instantiated)
        /\ (\/ lastOp.env # "ok"
            \/ descriptor.inplace_broken
            \/ ~descriptor.has_instantiate) => lastOp.failed
        /\ lastOp.failed
           => (/\ lifecycle = "failed"
               /\ shadow_data = << >>
               /\ control_data = << >>
               /\ lastRun = << >>)

\* an inplace-broken plugin, in an environment where everything else would
\* succeed, was rejected and never instantiated
C8_Witness ==
    /\ lastOp.op = "load"
    /\ lastOp.env = "ok"
    /\ descriptor.inplace_broken
    /\ descriptor.has_instantiate
    /\ lastOp.failed
    /\ ~lastOp.instantiated
    /\ lifecycle = "failed"

\* the number of audio input ports, and of audio output ports, before port i
AudioInputsBefore(i) ==
    Cardinality({ j \in 0 .. i - 1 : /\ LADSPA_IS_PORT_AUDIO(port_descriptor(j))
                                     /\ LADSPA_IS_PORT_INPUT(port_descriptor(j)) })

AudioOutputsBefore(i) ==
    Cardinality({ j \in 0 .. i - 1 : /\ LADSPA_IS_PORT_AUDIO(port_descriptor(j))
                                     /\ ~LADSPA_IS_PORT_INPUT(port_descriptor(j))
                                     /\ LADSPA_IS_PORT_OUTPUT(port_descriptor(j)) })

\* C9: when a processing call runs the plugin, the n-th audio input port in
\* index order is connected to the buffer the input map gives for position
\* n, or to the silent buffer when the map has no entry for n; the n-th
\* audio output port to the buffer the output map gives for n, or to the
\* scratch buffer; inputs and outputs are counted apart, control ports take
\* no position and keep their connection, and every audio address is taken
\* at the call's sample offset.
C9_BufferRouting ==
    (lastOp.op = "process" /\ Len(lastRun) = 1) =>
        \A i \in PortIndices :
            LET pd == port_descriptor(i)
                conn == lastRun[1].conn[i]
                n_in == AudioInputsBefore(i)
                n_out == AudioOutputsBefore(i)
            IN  IF LADSPA_IS_PORT_AUDIO(pd) /\ LADSPA_IS_PORT_INPUT(pd)
                THEN IF n_in \in DOMAIN lastOp.in_map
                     THEN conn = Address("bufs", lastOp.in_map[n_in], lastOp.offset)
                     ELSE conn = Address("silent", 0, lastOp.offset)
                ELSE IF LADSPA_IS_PORT_AUDIO(pd) /\ LADSPA_IS_PORT_OUTPUT(pd)
                THEN IF n_out \in DOMAIN lastOp.out_map
                     THEN conn = Address("bufs", lastOp.out_map[n_out], lastOp.offset)
                     ELSE conn = Address("scratch", 0, lastOp.offset)
                ELSE conn = Address("control", i, 0)

\* a run at a sample offset where the first audio input is not mapped, the
\* second is mapped to buffer 1, the first output is mapped to buffer 1 and
\* the second is not mapped, with a control port between the audio ports
C9_Witness ==
    /\ lastOp.op = "process"
    /\ Len(lastRun) = 1
    /\ lastOp.offset = 64
    /\ AudioInputCount = 2
    /\ AudioOutputCount = 2
    /\ DOMAIN lastOp.in_map = { 1 }
    /\ lastOp.in_map[1] = 1
    /\ DOMAIN lastOp.out_map = { 0 }
    /\ lastOp.out_map[0] = 1
    /\ \E i, j, c \in PortIndices :
           /\ i < c
           /\ c < j
           /\ LADSPA_IS_PORT_CONTROL(port_descriptor(c))
           /\ lastRun[1].conn[i] = Address("silent", 0, 64)
           /\ lastRun[1].conn[j] = Address("bufs", 1, 64)
           /\ LADSPA_IS_PORT_INPUT(port_descriptor(j))

\* C10: the silent buffer holds only zeros throughout: in no run of the
\* plugin is it connected to an audio output port, so the plugin never
\* writes to it, and an audio input that is not mapped reads zeros.
C10_SilentNeverWritten ==
    /\ silent_zero
    /\ \A n \in 1 .. Len(lastRun) :
           \A w \in WrittenBuffers(lastRun[n]) : w.kind # "silent"

\* a run in which an input reads the silent buffer while an output that is
\* not mapped is written to the scratch buffer
C10_Witness ==
    /\ lastOp.op = "process"
    /\ Len(lastRun) = 1
    /\ silent_zero
    /\ \E r \in ReadBuffers(lastRun[1]) : r.kind = "silent"
    /\ \E w \in WrittenBuffers(lastRun[1]) : w.kind = "scratch"

\* C11: the document add_state writes holds one "Port" entry (port index,
\* shadow value) for each port that is input-direction and control-kind, in
\* increasing index order, and no entry for an output port or an audio port.
C11_SavedEntries ==
    lastOp.op = "add_state" =>
        /\ Len(doc.children) = Cardinality(InputControlPorts)
        /\ \A k \in 1 .. Len(doc.children) :
               /\ doc.children[k].tag = "Port"
               /\ doc.children[k].has_number
               /\ doc.children[k].has_value
               /\ ScanUInt(doc.children[k].number).val \in InputControlPorts
               /\ ScanFloat(doc.children[k].value).val =
                      shadow_data[ScanUInt(doc.children[k].number).val]
        /\ \A j, k \in 1 .. Len(doc.children) :
               j < k => ScanUInt(doc.children[j].number).val
                            < ScanUInt(doc.children[k].number).val

\* a saved document with two entries, and one saved for a plugin that has an
\* output control port and an audio port besides its input control port
C11_Witness ==
    /\ lastOp.op = "add_state"
    /\ \/ Len(doc.children) = 2
       \/ /\ Len(doc.children) = 1
          /\ OutputControlPorts # {}
          /\ \E i \in PortIndices : LADSPA_IS_PORT_AUDIO(port_descriptor(i))

\* C12: set_state on a document whose root is not of the state node name
\* returns -1, in the current and in the legacy format, and leaves every
\* shadow value, every live value and the activation flag as they were,
\* without running the plugin.
C12_BadContainer ==
    [][ (lastOp'.op = "set_state" /\ ~lastOp'.name_ok)
        => (/\ lastOp'.result = 0 - 1
            /\ shadow_data' = shadow_data
            /\ control_data' = control_data
            /\ was_activated' = was_activated
            /\ lastRun' = << >>) ]_vars

\* a document of another root name was refused in the legacy format by an
\* activated adapter holding a value that processing has not yet copied
C12_Witness ==
    /\ lastOp.op = "set_state"
    /\ ~lastOp.name_ok
    /\ lastOp.version < 3000
    /\ lastOp.result = 0 - 1
    /\ was_activated
    /\ \E i \in InputControlPorts : shadow_data[i] # control_data[i]

\* C13: set_parameter with an index that is not below the port count is
\* skipped: it leaves every shadow value and every live value as they were
\* and does not call Plugin::set_parameter, so no change is propagated.
C13_OutOfRangeSkipped ==
    [][ (lastOp'.op = "set_parameter" /\ lastOp'.which >= parameter_count)
        => (/\ shadow_data' = shadow_data
            /\ control_data' = control_data
            /\ ~lastOp'.propagated) ]_vars

\* the literal a default hint names
HintLiteral(k) ==
    CASE k = "0" -> Whole(0)
      [] k = "1" -> Whole(1)
      [] k = "100" -> Whole(100)
      [] k = "440" -> Whole(440)

\* C14: for a port whose default hint is one of the literals 0, 1, 100, 440
\* the resolved default is that literal, whatever the bounds, the bound
\* flags, the logarithmic flag, the sample rate and the sample-rate flag.
C14_LiteralDefaults ==
    (resolved.done /\ hinted.hint.default \in { "0", "1", "100", "440" })
    => resolved.value = HintLiteral(hinted.hint.default)

\* the literal 440 resolved for a port that carries the sample-rate flag
C14_Witness ==
    /\ resolved.done
    /\ hinted.hint.default = "440"
    /\ hinted.hint.sample_rate
    /\ hinted.hint.bounded_below
    /\ hinted.hint.bounded_above
    /\ resolved.value = Whole(440)

\* C15: for a port with no default hint that is bounded below and above,
\* the default before sample-rate scaling is 0 when the lower bound is
\* negative and the upper bound positive, the upper bound when both bounds
\* are negative, and the lower bound in every other case.
C15_BoundedNoDefault ==
    (/\ resolved.done
     /\ hinted.hint.default = "none"
     /\ hinted.hint.bounded_below
     /\ hinted.hint.bounded_above)
    => resolved.unscaled =
           (IF hinted.LowerBound < 0 /\ hinted.UpperBound > 0 THEN 0
            ELSE IF hinted.LowerBound < 0 /\ hinted.UpperBound < 0
            THEN hinted.UpperBound
            ELSE hinted.LowerBound)

\* a range of two different negative bounds resolved to the upper one
C15_Witness ==
    /\ resolved.done
    /\ hinted.hint.default = "none"
    /\ hinted.hint.bounded_below
    /\ hinted.hint.bounded_above
    /\ hinted.LowerBound < hinted.UpperBound
    /\ hinted.UpperBound < 0
    /\ resolved.unscaled = hinted.UpperBound

\* the weights (of the lower bound, of the upper bound), in quarters, of the
\* default hints low, middle and high
HintWeights(k) ==
    CASE k = "low" -> << 3, 1 >>
      [] k = "middle" -> << 2, 2 >>
      [] k = "high" -> << 1, 3 >>

\* C19: where the interpolation is linear, the default before scaling is
\* 0.75 lower + 0.25 upper for the hint low, 0.5 lower + 0.5 upper for
\* middle and 0.25 lower + 0.75 upper for high; for the hint minimum it is
\* the lower bound and for maximum the upper bound.
C19_LinearWeights ==
    resolved.done =>
        /\ (/\ hinted.hint.default \in { "low", "middle", "high" }
            /\ ~(hinted.hint.logarithmic
                 /\ hinted.LowerBound * hinted.UpperBound > 0))
           => 4 * resolved.unscaled =
                  HintWeights(hinted.hint.default)[1] * hinted.LowerBound
                  + HintWeights(hinted.hint.default)[2] * hinted.UpperBound
        /\ hinted.hint.default = "minimum"
           => resolved.unscaled = hinted.LowerBound
        /\ hinted.hint.default = "maximum"
           => resolved.unscaled = hinted.UpperBound

\* the hint high resolved on a range of two different bounds, where the
\* weights of low would have given another value
C19_Witness ==
    /\ resolved.done
    /\ hinted.hint.default = "high"
    /\ ~hinted.hint.logarithmic
    /\ hinted.LowerBound < hinted.UpperBound
    /\ 4 * resolved.unscaled = hinted.LowerBound + 3 * hinted.UpperBound
    /\ 4 * resolved.unscaled # 3 * hinted.LowerBound + hinted.UpperBound

\* C20: for the hints low, middle and high the default before scaling is
\* the interpolation in log-space exactly when the port is logarithmic and
\* both bounds are positive, and the linear interpolation in every other
\* case, a logarithmic port with two negative bounds or a zero bound
\* included.
C20_LogOnlyWhenPositive ==
    (resolved.done /\ hinted.hint.default \in { "low", "middle", "high" })
    => LET w == HintWeights(hinted.hint.default)
       IN  IF /\ hinted.hint.logarithmic
              /\ hinted.LowerBound > 0
              /\ hinted.UpperBound > 0
           THEN resolved.unscaled =
                    LogInterp(hinted.LowerBound, hinted.UpperBound, w[1], w[2])
           ELSE 4 * resolved.unscaled =
                    w[1] * hinted.LowerBound + w[2] * hinted.UpperBound

\* C16: for a plugin with no output control port named "latency",
\* plugin_latency () is 0 in every state of the adapter, and neither the
\* construction nor set_state runs the plugin or changes the activation
\* flag: construction leaves it clear, set_state leaves it as it was.
C16_NoLatencyPort ==
    [][ LatencyCandidates = {}
        => (/\ lifecycle' = "ok"
               => (latency_control_port' = {} /\ plugin_latency(this') = 0)
            /\ lastOp'.op \in { "load", "set_state" } => lastRun' = << >>
            /\ lastOp'.op = "load" => ~was_activated'
            /\ lastOp'.op = "set_state" => was_activated' = was_activated) ]_vars

\* an activated adapter of a plugin without latency port has loaded a
\* document that changed a value, and is still activated
C16_Witness ==
    /\ LatencyCandidates = {}
    /\ lastOp.op = "set_state"
    /\ lastOp.name_ok
    /\ lastOp.result = 0
    /\ was_activated
    /\ lastRun = << >>
    /\ plugin_latency(this) = 0
    /\ \E i \in InputControlPorts : shadow_data[i] # control_data[i]

\* C17: in every call on a constructed adapter, a shadow value changes only
\* in set_parameter or in set_state (which calls it), and a live value
\* changes only in a call that enters run_in_place, where the live values
\* of the input control ports become their shadow values; so set_parameter
\* leaves every live value and a processing call every shadow value as it
\* was.
C17_SingleWriters ==
    [][ (lifecycle = "ok" /\ lastOp'.op # "load")
        => (/\ shadow_data' # shadow_data
               => lastOp'.op \in { "set_parameter", "set_state" }
            /\ control_data' # control_data
               => (/\ lastOp'.op \in { "process", "set_state" }
                   /\ (lastRun' # << >> \/ lifecycle' = "aborted")
                   /\ \A i \in InputControlPorts :
                          control_data'[i] = shadow_data'[i]
                   /\ \A i \in PortIndices \ (InputControlPorts \cup OutputControlPorts) :
                          control_data'[i] = control_data[i])
            /\ lastOp'.op = "set_parameter" => control_data' = control_data
            /\ lastOp'.op = "process" => shadow_data' = shadow_data) ]_vars

\* a set_state call whose latency probe copied a loaded value into the live
\* slot of an input control port
C17_Witness ==
    /\ lastOp.op = "set_state"
    /\ Len(lastRun) = 1
    /\ \E i \in InputControlPorts :
           /\ lastRun[1].entry[i] # control_data[i]
           /\ control_data[i] = shadow_data[i]

BoundKinds == { "minimum", "low", "middle", "high", "maximum" }

\* cases 1 to 4 computed a value from a bound of the port
BoundDerived(p) ==
    \/ p.hint.default \in BoundKinds
    \/ /\ p.hint.default = "none"
       /\ (p.hint.bounded_below \/ p.hint.bounded_above)

\* C21: the resolved default is the value before scaling times the sample
\* rate when the port carries the sample-rate flag, its default is no
\* literal and a value was derived from a bound; it is the sample rate
\* itself when the port carries the flag and no case gave a value (no
\* default and no bound flag, or a default of no known kind); it is the
\* value before scaling when the port does not carry the flag, and that
\* value is 0 for a default of no known kind.
C21_SampleRateScaling ==
    resolved.done =>
        /\ (hinted.hint.sample_rate /\ BoundDerived(hinted))
           => resolved.value = FloatScale(resolved.unscaled, sample_rate)
        /\ (/\ hinted.hint.sample_rate
            /\ \/ hinted.hint.default = "unknown"
               \/ /\ hinted.hint.default = "none"
                  /\ ~hinted.hint.bounded_below
                  /\ ~hinted.hint.bounded_above)
           => resolved.value = Whole(sample_rate)
        /\ ~hinted.hint.sample_rate => resolved.value = resolved.unscaled
        /\ hinted.hint.default = "unknown" => resolved.unscaled = 0
        /\ (/\ resolved.value # resolved.unscaled
            /\ resolved.value = FloatScale(resolved.unscaled, sample_rate))
           => (/\ hinted.hint.sample_rate
               /\ hinted.hint.default \notin { "0", "1", "100", "440" }
               /\ BoundDerived(hinted))

\* a port with the sample-rate flag and a default of no known kind resolved
\* to the sample rate, its bounds notwithstanding
C21_Witness ==
    /\ resolved.done
    /\ hinted.hint.sample_rate
    /\ hinted.hint.default = "unknown"
    /\ hinted.hint.bounded_below
    /\ hinted.LowerBound > 0
    /\ resolved.unscaled = 0
    /\ resolved.value = Whole(sample_rate)

\* C22: for a port with no default hint and a bound on one side only, the
\* default before sample-rate scaling is, when only the lower bound is
\* given, 0 if that bound is negative and the bound otherwise, and, when
\* only the upper bound is given, 0 if that bound is positive and the bound
\* otherwise.
C22_OneSidedBound ==
    (resolved.done /\ hinted.hint.default = "none") =>
        /\ (hinted.hint.bounded_below /\ ~hinted.hint.bounded_above)
           => resolved.unscaled =
                  (IF hinted.LowerBound < 0 THEN 0 ELSE hinted.LowerBound)
        /\ (~hinted.hint.bounded_below /\ hinted.hint.bounded_above)
           => resolved.unscaled =
                  (IF hinted.UpperBound > 0 THEN 0 ELSE hinted.UpperBound)

\* a port bounded only above by a negative bound resolved to that bound
C22_Witness ==
    /\ resolved.done
    /\ hinted.hint.default = "none"
    /\ ~hinted.hint.bounded_below
    /\ hinted.hint.bounded_above
    /\ hinted.UpperBound < 0
    /\ hinted.LowerBound < hinted.UpperBound
    /\ resolved.unscaled = hinted.UpperBound

\* every property an entry of d has is one its format reads: the number an
\* unsigned integer, the value a float
WellFormed(d) ==
    \A i \in DOMAIN d.children :
        /\ d.children[i].has_number => ScanUInt(d.children[i].number).ok
        /\ d.children[i].has_value => ScanFloat(d.children[i].value).ok

\* the entries of d that have both properties, in the order of d
CompleteEntries(d) ==
    SelectSeq(d.children, LAMBDA c : c.has_number /\ c.has_value)

RECURSIVE ApplyEntries(_, _)
\* set_parameter (number, value, 0) called for each of the entries in turn
ApplyEntries(a, entries) ==
    IF entries = << >>
    THEN a
    ELSE ApplyEntries(set_parameter(a, ScanUInt(Head(entries).number).val,
                                    ScanFloat(Head(entries).value).val).adapter,
                      Tail(entries))

\* C23: set_state, in either format, on a document whose entries may lack
\* the number or the value: the entries that lack one change no parameter,
\* the entries that have both are all passed to set_parameter in the order
\* of the document, and the call neither fails nor aborts.
C23_MissingFieldsSkipped ==
    [][ (lastOp'.op = "set_state" /\ WellFormed(doc))
        => (/\ shadow_data' = ApplyEntries(this, CompleteEntries(doc)).shadow
            /\ lastOp'.result = 0
            /\ lifecycle' = "ok") ]_vars

\* a legacy document of an entry with no number, then one with both
\* properties, was loaded and the second entry has set port 1 to 0.0
C23_Witness ==
    /\ lastOp.op = "set_state"
    /\ lastOp.version < 3000
    /\ lastOp.result = 0
    /\ Len(doc.children) = 2
    /\ ~doc.children[1].has_number
    /\ doc.children[1].has_value
    /\ doc.children[2] = Child("Port", TRUE, << "1" >>, TRUE, << "0" >>)
    /\ shadow_data[1] = 0
    /\ 1 \in InputControlPorts

\* C24: set_state_2X on a list of entries leaves the shadow values that
\* set_state in the current format leaves on the same list; so an entry
\* whose number is present and is no unsigned integer is skipped, and is
\* not applied to the port of an entry read before it.
C24_LegacySameAsCurrent ==
    [][ (lastOp'.op = "set_state" /\ lastOp'.version < 3000)
        => shadow_data' =
               ApplyPorts(this, ChildrenNamed(doc, "Port"), 0).adapter.shadow ]_vars

\* C25: every set_state call, in either format, that loads a document into
\* an adapter with a latency port runs the plugin once more before it
\* returns, after the entries were applied: at that run the live slot of
\* every input control port holds the loaded value.
C25_ProbeAfterLoad ==
    (/\ lastOp.op = "set_state"
     /\ lastOp.name_ok
     /\ latency_control_port # {})
    => /\ lifecycle = "ok"
       /\ Len(lastRun) = 1
       /\ \A i \in InputControlPorts : lastRun[1].control[i] = shadow_data[i]

\* a load whose probe ran with a loaded value that the live slot did not
\* hold when set_state was called
C25_Witness ==
    /\ lastOp.op = "set_state"
    /\ lastOp.name_ok
    /\ latency_control_port # {}
    /\ Len(lastRun) = 1
    /\ \E i \in InputControlPorts :
           /\ lastRun[1].entry[i] # shadow_data[i]
           /\ lastRun[1].control[i] = shadow_data[i]

\* C26: the latency the probe obtained is kept: no activate, deactivate,
\* set_parameter or processing call changes what plugin_latency () returns,
\* whatever the plugin writes to its latency port in a processing call.
C26_LatencyCached ==
    [][ (/\ lifecycle = "ok"
         /\ lastOp'.op \in { "activate", "deactivate", "set_parameter", "process" })
        => plugin_latency(this') = plugin_latency(this) ]_vars

\* C27: a copy-constructed adapter holds, in the shadow slot and in the
\* live slot of every input control port, the shadow value of its source,
\* and reports the latency floor (k) when the plugin writes the constant k
\* to its latency port.
C27_CopyLikeFresh ==
    (lastOp.op = "copy" /\ ~lastOp.failed)
    => /\ \A i \in InputControlPorts :
              /\ shadow_data[i] = lastOp.source[i]
              /\ control_data[i] = lastOp.source[i]
       /\ (plugin_const /\ latency_control_port # {})
          => plugin_latency(this) = Floor(plugin_k)

\* C28: set_state, in either format, leaves the activation flag as it
\* found it: an activated adapter is activated when the call returns, and
\* a processing call may follow; a non-activated one stays non-activated.
C28_LoadKeepsActivation ==
    [][ lastOp'.op = "set_state" => was_activated' = was_activated ]_vars

\* C29: for a port whose default is no literal, the resolved default is not
\* below the lower bound when the port is bounded below and not above the
\* upper bound when it is bounded above, the bounds being multiplied by the
\* sample rate for a port with the sample-rate flag.
C29_DefaultWithinBounds ==
    (resolved.done /\ hinted.hint.default \notin { "0", "1", "100", "440" })
    => /\ hinted.hint.bounded_below
          => FloatLe(get_parameter_descriptor(hinted, sample_rate).lower,
                     resolved.value)
       /\ hinted.hint.bounded_above
          => FloatLe(resolved.value,
                     get_parameter_descriptor(hinted, sample_rate).upper)

\* C30: the normal value get_parameter_descriptor exports for a control
\* port is the default seeded into the port's slots at construction, and
\* the exported range has lower <= normal <= upper.
C30_DescriptorMatchesSeed ==
    resolved.done =>
        /\ get_parameter_descriptor(hinted, sample_rate).normal = resolved.value
        /\ FloatLe(get_parameter_descriptor(hinted, sample_rate).lower,
                   get_parameter_descriptor(hinted, sample_rate).normal)
        /\ FloatLe(get_parameter_descriptor(hinted, sample_rate).normal,
                   get_parameter_descriptor(hinted, sample_rate).upper)

====
